---- MODULE Spec2Model ----
(***************************************************************************)
(* MOSAIC tutoring agent: the curriculum mastery graph (kg/neo4j_client),  *)
(* the per-student memory store (memory/letta_client), the feedback        *)
(* decision engine (agents/feedback_agent), the assessment agent and the   *)
(* intent router with its pending follow-up (agents/orchestrator).         *)
(*                                                                         *)
(* Text is modelled as sequences of one-character strings, so that         *)
(* lower(), strip(), startswith() and substring containment are computed   *)
(* the way the Python code computes them.                                  *)
(*                                                                         *)
(* The agents pass a keyword argument kg=... to Neo4jClient methods whose  *)
(* signatures in kg/neo4j_client.py declare no such parameter, and         *)
(* api/main.py and streamlit_app.py construct the Orchestrator without     *)
(* its recommender argument.  The model follows the method bodies: a call  *)
(* reaches the Cypher statement of the method it names.                    *)
(***************************************************************************)
EXTENDS Integers, Sequences, FiniteSets, TLC

VARIABLES
    status,        \* graph: node name -> status property ("null" when unset)
    mastered_at,   \* graph: node name -> mastered_at property (NoTime when unset)
    updated_at,    \* graph: node name -> updated_at property (NoTime when unset)
    clock,         \* wall clock read by datetime.now()
    pending_concept,   \* Orchestrator.pending_concept
    pending_message,   \* Orchestrator.pending_message
    pending_intent,    \* Orchestrator.pending_intent ("None", "solver", "recommender")
    last_agent_used,   \* Orchestrator.last_agent_used
    pending_owner,     \* history: the session whose request wrote the pending follow-up
    rt,                \* history: the last route() call, its classification and outcome
    archival,          \* memory store: student -> archival records, in append order
    core,              \* memory store: student -> core memory block (the profile)
    fb,                \* history: the last give_feedback call, its decision and status writes
    wk,                \* worker -> the call it is executing: position and local variables
    shadow             \* the second run of a two-run comparison: its graph, archive and last call

kgvars == <<status, mastered_at, updated_at, clock>>

rtvars == <<pending_concept, pending_message, pending_intent, last_agent_used,
            pending_owner, rt>>

memvars == <<archival, core, fb>>

runvars == <<wk, shadow>>

vars == <<kgvars, rtvars, memvars, runvars>>

\* ------------------------------------------------------------------ bounds

MaxClock == 3
MaxSyncLen == 2
MaxRaceClock == 2
MaxArchive == 3
MaxFeedbackClock == 3
MaxScore == 100
MaxAttempt == 4

\* the clock value up to which give_feedback is called on the backfilled
\* curriculum: three calls of two status writes each
MaxFocusClock == 5

\* ------------------------------------------------------------------ text

UpperLetters == <<"A", "B", "C", "D", "E", "F", "G", "H", "I", "J", "K", "L", "M", "N", "O", "P", "Q", "R", "S", "T", "U", "V", "W", "X", "Y", "Z">>

LowerLetters == <<"a", "b", "c", "d", "e", "f", "g", "h", "i", "j", "k", "l", "m", "n", "o", "p", "q", "r", "s", "t", "u", "v", "w", "x", "y", "z">>

LetterIndex(letters, c) == CHOOSE i \in 1..Len(letters) : letters[i] = c

IsIn(letters, c) == \E i \in 1..Len(letters) : letters[i] = c

\* str.lower() and str.upper(), one character
LowerChar(c) == IF IsIn(UpperLetters, c) THEN LowerLetters[LetterIndex(UpperLetters, c)] ELSE c

UpperChar(c) == IF IsIn(LowerLetters, c) THEN UpperLetters[LetterIndex(LowerLetters, c)] ELSE c

Lower(s) == [i \in 1..Len(s) |-> LowerChar(s[i])]

Upper(s) == [i \in 1..Len(s) |-> UpperChar(s[i])]

IsSpace(c) == c \in {" ", "\t", "\n"}

RECURSIVE LStrip(_)
LStrip(s) == IF s # <<>> /\ IsSpace(Head(s)) THEN LStrip(Tail(s)) ELSE s

RECURSIVE RStrip(_)
RStrip(s) == IF s # <<>> /\ IsSpace(s[Len(s)]) THEN RStrip(SubSeq(s, 1, Len(s) - 1)) ELSE s

\* str.strip()
Strip(s) == RStrip(LStrip(s))

\* s.startswith(p)
StartsWith(s, p) == Len(p) <= Len(s) /\ SubSeq(s, 1, Len(p)) = p

\* w in s
Contains(s, w) == \E i \in 0..(Len(s) - Len(w)) : SubSeq(s, i + 1, i + Len(w)) = w

\* s[:k]
Take(s, k) == SubSeq(s, 1, IF Len(s) < k THEN Len(s) ELSE k)

\* Python's None among text values (no text holds a four-character element)
None == <<"None">>

\* truthiness of an optional text: neither None nor ""
Truthy(x) == x # None /\ x # <<>>

\* ------------------------------------------------------------ graph store

NoTime == -1
Sentinel == 0

py == <<"p", "y">>
eda == <<"e", "d", "a">>
pca == <<"p", "c", "a">>
knn == <<"k", "n", "n">>
arima == <<"a", "r", "i", "m", "a">>

Topics == {py, eda, pca}
Techniques == {knn, arima}
Nodes == Topics \cup Techniques

\* the kg property of a node; "null" when the node carries none
NodeKg(n) == IF n = arima THEN "timeseries" ELSE IF n = knn THEN "fods" ELSE "null"

\* coalesce(n.kg, 'fods') = 'fods'
IsFods(n) == (IF NodeKg(n) = "null" THEN "fods" ELSE NodeKg(n)) = "fods"

\* PREREQUISITE edges: pca -> eda -> py
Prereq == {<<pca, eda>>, <<eda, py>>}

Statuses == {"grey", "blue", "yellow", "green", "red", "orange"}

\* coalesce(n.status, 'grey')
CoalesceStatus(s) == IF s = "null" THEN "grey" ELSE s

\* WITH n WHERE $status = 'green' AND n.mastered_at IS NULL SET n.mastered_at = $now
LatchMasteredAtOverwrite(old, st, now) == IF st = "green" THEN now ELSE old

LatchMasteredAt(old, st, now) ==
    IF st = "green" /\ old = NoTime THEN now ELSE old

\* the graph as one value
Graph == [status |-> status, mastered_at |-> mastered_at, updated_at |-> updated_at]

SetGraph(g) ==
    /\ status' = g.status
    /\ mastered_at' = g.mastered_at
    /\ updated_at' = g.updated_at

\* SET n.status = $status, n.updated_at = $now, and the mastered_at latch, on
\* the matched nodes.  Neo4jClient.query catches a failed query and answers
\* []: a write that fails (ok = FALSE) changes nothing.
StatusWrite(g, matched, st, now, ok) ==
    [status |-> [n \in Nodes |->
          IF ok /\ n \in matched THEN st ELSE g.status[n]],
     updated_at |-> [n \in Nodes |->
          IF ok /\ n \in matched THEN now ELSE g.updated_at[n]],
     mastered_at |-> [n \in Nodes |->
          IF ok /\ n \in matched
          THEN LatchMasteredAt(g.mastered_at[n], st, now)
          ELSE g.mastered_at[n]]]

\* MATCH (t:Topic {name: $name})
MatchTopic(name) == {n \in Topics : n = name}

\* MATCH (t:Technique {name: $name}) WHERE coalesce(t.kg, 'fods') = 'fods'
MatchTechnique(name) == {n \in Techniques : n = name /\ IsFods(n)}

\* MATCH (n) WHERE (n:Topic OR n:Technique) AND n.name = $name AND coalesce(n.kg,'fods') = 'fods'
MatchNode(name) == {n \in Nodes : n = name /\ IsFods(n)}

update_topic_status(name, st, ok) ==
    /\ clock < MaxClock
    /\ clock' = clock + 1
    /\ SetGraph(StatusWrite(Graph, MatchTopic(name), st, clock', ok))

update_technique_status(name, st, ok) ==
    /\ clock < MaxClock
    /\ clock' = clock + 1
    /\ SetGraph(StatusWrite(Graph, MatchTechnique(name), st, clock', ok))

update_node_status(name, st, ok) ==
    /\ clock < MaxClock
    /\ clock' = clock + 1
    /\ SetGraph(StatusWrite(Graph, MatchNode(name), st, clock', ok))

\* the backfill without its status guard
RECURSIVE SyncFoldOverwrite(_, _, _)
SyncFoldOverwrite(g, names, oks) ==
    IF names = <<>> THEN g
    ELSE LET name == Head(names)
             hit == {n \in Nodes : n = name /\ IsFods(n) /\ Head(oks)}
             g2 == [status |-> [n \in Nodes |->
                        IF n \in hit THEN "green" ELSE g.status[n]],
                    mastered_at |-> [n \in Nodes |->
                        IF n \in hit THEN Sentinel ELSE g.mastered_at[n]],
                    updated_at |-> [n \in Nodes |->
                        IF n \in hit THEN Sentinel ELSE g.updated_at[n]]]
         IN SyncFoldOverwrite(g2, Tail(names), Tail(oks))

\* sync_mastery_from_letta: one query per name, each with ts = sentinel;
\* oks[i] is the outcome of the i-th query.
RECURSIVE SyncFold(_, _, _)
SyncFold(g, names, oks) ==
    IF names = <<>> THEN g
    ELSE LET name == Head(names)
             hit == {n \in Nodes : /\ n = name
                                   /\ IsFods(n)
                                   /\ CoalesceStatus(g.status[n]) # "green"
                                   /\ Head(oks)}
             g2 == [status |-> [n \in Nodes |->
                        IF n \in hit THEN "green" ELSE g.status[n]],
                    mastered_at |-> [n \in Nodes |->
                        IF n \in hit THEN Sentinel ELSE g.mastered_at[n]],
                    updated_at |-> [n \in Nodes |->
                        IF n \in hit THEN Sentinel ELSE g.updated_at[n]]]
         IN SyncFold(g2, Tail(names), Tail(oks))

sync_mastery_from_letta(names, oks) ==
    LET g == SyncFold(Graph, names, oks)
    IN /\ SetGraph(g)
       /\ clock' = clock

Range(q) == {q[i] : i \in 1..Len(q)}

SeqsUpTo(S, k) == UNION {[1..i -> S] : i \in 0..k}

InitKG ==
    /\ status = [n \in Nodes |-> "null"]
    /\ mastered_at = [n \in Nodes |-> NoTime]
    /\ updated_at = [n \in Nodes |-> NoTime]
    /\ clock = 0

\* names the graph operations are called with: a Topic, a Technique of the
\* curriculum graph and a Technique of the time-series graph
KGNames == {pca, knn, arima}

\* ------------------------------------------------- prerequisite resolver

\* dict.get(key, default)
Get(r, key, default) == IF key \in DOMAIN r THEN r[key] ELSE default

\* direct PREREQUISITE targets of a topic that are Topics
DirectPrereqs(t) == {pre \in Topics : <<t, pre>> \in Prereq}

\* the Topics a path of exactly d PREREQUISITE edges leads to from n
RECURSIVE PathEnds(_, _)
PathEnds(n, d) ==
    IF d = 0 THEN {n}
    ELSE UNION {PathEnds(m, d - 1) : m \in DirectPrereqs(n)}

\* the longest path of the curriculum graph, which is acyclic
MaxDepth == Cardinality(Topics) - 1

Orderings(S) == {q \in [1..Cardinality(S) -> S] : \A i, j \in 1..Cardinality(S) : q[i] = q[j] => i = j}

\* Neo4jClient.query: the rows of the statement, or [] when the driver raises
QueryKeepsRows(rows, ok) == rows

query(rows, ok) == IF ok THEN rows ELSE <<>>

\* rows ordered by depth; rows of equal depth come in any order
RECURSIVE ChainsFrom(_, _, _)
ChainsFrom(g, topic, d) ==
    IF d > MaxDepth THEN {<<>>}
    ELSE LET level == {[name |-> m, status |-> CoalesceStatus(g.status[m]), depth |-> d] :
                         m \in PathEnds(topic, d)}
         IN {a \o b : a \in Orderings(level), b \in ChainsFrom(g, topic, d + 1)}

\* get_prerequisite_chain_for_feedback: the possible row lists; [] when the
\* name matches no Topic or the query fails
get_prerequisite_chain_for_feedback(g, topic, ok) ==
    {query(rows, ok) : rows \in (IF topic \in Topics THEN ChainsFrom(g, topic, 1) ELSE {<<>>})}

\* character order of the names (lower-case letters)
CharRank(c) == LetterIndex(LowerLetters, c)

\* a < b in string order
RECURSIVE LexLess(_, _)
LexLess(a, b) ==
    IF b = <<>> THEN FALSE
    ELSE IF a = <<>> THEN TRUE
    ELSE IF Head(a) = Head(b) THEN LexLess(Tail(a), Tail(b))
    ELSE CharRank(Head(a)) < CharRank(Head(b))

DefaultTopic ==
    <<"P", "y", "t", "h", "o", "n", " ", "f", "o", "r", " ", "D", "a", "t", "a", " ", "S", "c", "i", "e", "n", "c", "e">>

\* the recommendation query without its NOT EXISTS clause
NextTopicQueryNoPrereqCheck(topics, fods, prereq, st, ok) ==
    LET ready == {t \in topics \cap fods : CoalesceStatus(st[t]) # "green"}
        results == query(IF ready # {}
                         THEN <<CHOOSE t \in ready : \A u \in ready : u = t \/ LexLess(t, u)>>
                         ELSE <<>>, ok)
    IN IF results # <<>> THEN results[1] ELSE DefaultTopic

\* the query of get_next_recommended_topic over a graph whose Topic nodes are
\* topics, of which fods carry kg 'fods' or none, with PREREQUISITE edges
\* prereq and statuses st: ORDER BY t.name LIMIT 1 over the topics that are not
\* green and have no direct prerequisite Topic that is not green
NextTopicQuery(topics, fods, prereq, st, ok) ==
    LET ready == {t \in topics \cap fods :
                    /\ CoalesceStatus(st[t]) # "green"
                    /\ ~\E pre \in topics :
                          <<t, pre>> \in prereq /\ CoalesceStatus(st[pre]) # "green"}
        results == query(IF ready # {}
                         THEN <<CHOOSE t \in ready : \A u \in ready : u = t \/ LexLess(t, u)>>
                         ELSE <<>>, ok)
    IN IF results # <<>> THEN results[1] ELSE DefaultTopic

\* get_next_recommended_topic on the curriculum of this model
get_next_recommended_topic(g, ok) ==
    NextTopicQuery(Topics, {t \in Topics : IsFods(t)}, Prereq, g.status, ok)

\* [:PREREQUISITE*1..3]
HopLimit == 3

\* one row per prerequisite and path length within the hop limit
PrereqRows(topic) ==
    IF topic \in Topics
    THEN {<<m, d>> : m \in Topics, d \in 1..HopLimit} \cap
         UNION {{<<m, d>> : m \in PathEnds(topic, d)} : d \in 1..HopLimit}
    ELSE {}

\* ORDER BY pre.name
RECURSIVE OrderByName(_)
OrderByName(rows) ==
    IF rows = {} THEN <<>>
    ELSE LET first == CHOOSE r \in rows : \A q \in rows :
                         q = r \/ LexLess(r[1], q[1]) \/ (q[1] = r[1] /\ r[2] < q[2])
         IN <<first[1]>> \o OrderByName(rows \ {first})

\* Neo4jClient.get_prerequisites
get_prerequisites(topic, ok) == query(OrderByName(PrereqRows(topic)), ok)

\* Neo4jClient.get_unmastered_prerequisites
get_unmastered_prerequisites(g, topic, ok) ==
    query(OrderByName({r \in PrereqRows(topic) : CoalesceStatus(g.status[r[1]]) # "green"}), ok)

\* concept texts the agents are called with
c_PCA == <<"P", "C", "A">>

Concepts == {c_PCA, py}

\* a concept text that matches no node
c_svm == <<"s", "v", "m">>

\* toLower(t.name) CONTAINS toLower($name) OR toLower($name) CONTAINS toLower(t.name)
NameMatches(name, concept) ==
    \/ Contains(Lower(name), Lower(concept))
    \/ Contains(Lower(concept), Lower(name))

\* map_concept_to_topic: the names LIMIT 1 may return (Topics first, then
\* Techniques of the curriculum graph); {None} when nothing matches
MapCandidates(concept) ==
    LET topics == {t \in Topics : NameMatches(t, concept)}
        techs == {t \in Techniques : IsFods(t) /\ NameMatches(t, concept)}
    IN IF topics # {} THEN topics ELSE IF techs # {} THEN techs ELSE {None}

\* the concepts of the two-run comparison: one per Topic of the curriculum
TwinConcepts == Concepts \cup {eda}

MapTable == [c \in TwinConcepts \cup {c_svm} |-> MapCandidates(c)]

map_concept_to_topic(concept, ok) ==
    {LET results == query(IF name = None THEN <<>> ELSE <<name>>, ok)
     IN IF results # <<>> THEN results[1] ELSE None : name \in MapTable[concept]}

\* ------------------------------------------------------------ memory store

Students == {"s1", "s2"}

SearchLimit == 10

\* search_archival_memory: at most limit records of the student's archive;
\* [] when the call fails
search_archival_memory(student, ok) ==
    IF ~ok THEN {<<>>}
    ELSE IF Len(archival[student]) <= SearchLimit THEN {archival[student]}
    ELSE {q \in SeqsUpTo(Range(archival[student]), SearchLimit) : Len(q) = SearchLimit}

\* get_mistake_history: r.get("concept") == concept and not r.get("passed", True)
IsMistake(r, concept) ==
    /\ Get(r, "concept", None) = concept
    /\ ~Get(r, "passed", TRUE)

get_mistake_history(records, concept) ==
    SelectSeq(records, LAMBDA r : IsMistake(r, concept))

\* write_archival_memory: the record is appended; a failed call is caught
\* and the record is lost
write_archival_memory(arch, student, record, ok) ==
    IF ok THEN [arch EXCEPT ![student] = Append(@, record)] ELSE arch

\* --------------------------------------------------------- feedback agent

misconception_text == <<"m", "i", "x">>

\* assessment results handed to give_feedback: score, passed, misconception
AssessmentResults == {
    [score |-> 40, passed |-> FALSE, misconception |-> misconception_text],
    [score |-> 95, passed |-> TRUE, misconception |-> <<>>]}

\* p.get("status") in ["red", "orange", "grey", None]
IsWeakStatus(st) == st \in {"red", "orange", "grey", "null"}

weak_prereqs_of(chain) == SelectSeq(chain, LAMBDA p : IsWeakStatus(p.status))

\* FeedbackAgent._decide_next_action
DecideNextActionStrict(score, passed, attempt_count, weak_prereqs) ==
    IF passed /\ score > 90 THEN "advance"
    ELSE IF passed /\ score >= 70 THEN "practice_more"
    ELSE "re_teach"

_decide_next_action(score, passed, attempt_count, weak_prereqs) ==
    IF passed /\ score >= 90 THEN "advance"
    ELSE IF passed /\ score >= 70 THEN "practice_more"
    ELSE "re_teach"

\* FeedbackAgent._update_kg_node: the update_node_status calls it makes, in order
UpdateKgNodePrereqFirst(topic, passed, score, attempt_count, weak_prereqs) ==
    IF passed THEN <<<<topic, "green">>>>
    ELSE IF weak_prereqs # <<>>
    THEN <<<<topic, "orange">>, <<weak_prereqs[1].name, "red">>>>
    ELSE IF attempt_count >= 3 THEN <<<<topic, "red">>>>
    ELSE <<<<topic, "yellow">>>>

\* the update that marks every weak prerequisite red
UpdateKgNodeAllWeak(topic, passed, score, attempt_count, weak_prereqs) ==
    IF passed THEN <<<<topic, "green">>>>
    ELSE IF attempt_count >= 3 THEN <<<<topic, "red">>>>
    ELSE IF weak_prereqs # <<>>
    THEN <<<<topic, "orange">>>> \o
         [i \in 1..Len(weak_prereqs) |-> <<weak_prereqs[i].name, "red">>]
    ELSE <<<<topic, "yellow">>>>

_update_kg_node(topic, passed, score, attempt_count, weak_prereqs) ==
    IF passed THEN <<<<topic, "green">>>>
    ELSE IF attempt_count >= 3 THEN <<<<topic, "red">>>>
    ELSE IF weak_prereqs # <<>>
    THEN <<<<topic, "orange">>, <<weak_prereqs[1].name, "red">>>>
    ELSE <<<<topic, "yellow">>>>

\* update_node_status called once per write, each reading the clock
RECURSIVE ApplyWrites(_, _, _, _)
ApplyWrites(g, now, ws, ok) ==
    IF ws = <<>> THEN g
    ELSE ApplyWrites(StatusWrite(g, MatchNode(ws[1][1]), ws[1][2], now + 1, ok),
                     now + 1, Tail(ws), ok)

\* outcomes of the calls an agent makes: the generation (llm), the archive
\* search, the archive append, the graph reads (kg) and the graph status
\* writes (kgw)
IoOk == [llm |-> TRUE, search |-> TRUE, append |-> TRUE, kg |-> TRUE, kgw |-> TRUE]

\* the outcomes enumerated: every call succeeds, or the generation raises
FeedbackIO == {IoOk, [IoOk EXCEPT !.llm = FALSE]}

\* the decision with the misconception ranked before the weak prerequisite
FeedbackDecisionMisconceptionFirst(concept, result, topic, records, prereq_chain) ==
    LET score == Get(result, "score", 0)
        passed == Get(result, "passed", FALSE)
        misconception == Get(result, "misconception", <<>>)
        topic_to_use == IF topic # None THEN topic ELSE concept
        attempt_count == Len(get_mistake_history(records, concept)) + 1
        weak_prereqs == weak_prereqs_of(prereq_chain)
        next_action == _decide_next_action(score, passed, attempt_count, weak_prereqs)
        re_teach_focus ==
            IF next_action = "re_teach"
            THEN (IF misconception # <<>> THEN misconception
                  ELSE IF weak_prereqs # <<>> THEN weak_prereqs[1].name
                  ELSE concept)
            ELSE None
    IN [topic |-> topic_to_use, attempt |-> attempt_count, weak |-> weak_prereqs,
        chain |-> prereq_chain,
        next_action |-> next_action, re_teach_focus |-> re_teach_focus,
        record |-> [type |-> "feedback_given", concept |-> concept,
                    topic |-> topic_to_use, score |-> score, passed |-> passed,
                    misconception |-> misconception, root_cause |-> re_teach_focus,
                    attempt_number |-> attempt_count, next_action |-> next_action],
        writes |-> _update_kg_node(topic_to_use, passed, score, attempt_count, weak_prereqs)]

\* give_feedback, steps 1-7: what the call reads and decides before it
\* writes: the topic, the attempt number, the weak prerequisites, the next
\* action, the re-teach focus, the feedback_given record and the status writes
FeedbackDecision(concept, result, topic, records, prereq_chain) ==
    LET score == Get(result, "score", 0)
        passed == Get(result, "passed", FALSE)
        misconception == Get(result, "misconception", <<>>)
        topic_to_use == IF topic # None THEN topic ELSE concept
        attempt_count == Len(get_mistake_history(records, concept)) + 1
        weak_prereqs == weak_prereqs_of(prereq_chain)
        next_action == _decide_next_action(score, passed, attempt_count, weak_prereqs)
        re_teach_focus ==
            IF next_action = "re_teach"
            THEN (IF weak_prereqs # <<>> THEN weak_prereqs[1].name
                  ELSE IF misconception # <<>> THEN misconception
                  ELSE concept)
            ELSE None
    IN [topic |-> topic_to_use, attempt |-> attempt_count, weak |-> weak_prereqs,
        chain |-> prereq_chain,
        next_action |-> next_action, re_teach_focus |-> re_teach_focus,
        record |-> [type |-> "feedback_given", concept |-> concept,
                    topic |-> topic_to_use, score |-> score, passed |-> passed,
                    misconception |-> misconception, root_cause |-> re_teach_focus,
                    attempt_number |-> attempt_count, next_action |-> next_action],
        writes |-> _update_kg_node(topic_to_use, passed, score, attempt_count, weak_prereqs)]

FeedbackDecisions(student, concept, result, io) ==
    UNION {UNION {{FeedbackDecision(concept, result, topic, records, prereq_chain) :
                     prereq_chain \in get_prerequisite_chain_for_feedback(
                         Graph, IF topic # None THEN topic ELSE concept, io.kg)} :
                  records \in search_archival_memory(student, io.search)} :
           topic \in map_concept_to_topic(concept, io.kg)}

\* give_feedback returns unless the generation raised: the graph client
\* and the memory client catch the failures of their own calls
FeedbackReturnsIfStored(io) == io.llm /\ io.kgw /\ io.append

FeedbackReturns(io) == io.llm

\* the call as the history variable fb keeps it
FeedbackCall(student, concept, result, io, d, returned) ==
    [student |-> student, concept |-> concept, topic |-> d.topic,
     passed |-> Get(result, "passed", FALSE), score |-> Get(result, "score", 0),
     misconception |-> Get(result, "misconception", <<>>),
     attempt |-> d.attempt, weak |-> d.weak, chain |-> d.chain,
     next_action |-> IF returned THEN d.next_action ELSE "",
     re_teach_focus |-> IF returned THEN d.re_teach_focus ELSE None,
     writes |-> IF returned THEN d.writes ELSE <<>>,
     io |-> io, raised |-> ~returned]

\* FeedbackAgent.give_feedback
give_feedback(student, concept, result, io) ==
    \E d \in FeedbackDecisions(student, concept, result, io) :
      LET passed == Get(result, "passed", FALSE)
          g == ApplyWrites(Graph, clock, d.writes, io.kgw)
          mastered == Get(core[student], "mastered_concepts_fods", <<>>)
          next_topic == get_next_recommended_topic(g, io.kg)
      IN IF ~FeedbackReturns(io)
         THEN \* self.llm.generate raised: nothing was written yet
              /\ fb' = FeedbackCall(student, concept, result, io, d, FALSE)
              /\ UNCHANGED <<kgvars, archival, core>>
         ELSE /\ archival' = write_archival_memory(archival, student, d.record, io.append)
              /\ SetGraph(g)
              /\ clock' = clock + Len(d.writes)
              /\ core' = IF passed
                         THEN [core EXCEPT ![student] =
                                 [mastered_concepts_fods |->
                                    IF \E i \in 1..Len(mastered) : mastered[i] = d.topic
                                    THEN mastered ELSE Append(mastered, d.topic),
                                  current_topic |-> next_topic]]
                         ELSE core
              /\ fb' = FeedbackCall(student, concept, result, io, d, TRUE)

\* ------------------------------------------------------- assessment agent

\* AssessmentAgent.evaluate_answer with a reply that parses as JSON: the
\* result is appended as an assessment_result record
evaluate_answer(student, concept, result, appendOk) ==
    /\ archival' = write_archival_memory(archival, student,
                     [type |-> "assessment_result", concept |-> concept,
                      score |-> Get(result, "score", 0),
                      passed |-> Get(result, "passed", FALSE),
                      misconception |-> Get(result, "misconception", <<>>)],
                     appendOk)
    /\ UNCHANGED <<kgvars, core, fb>>

\* AssessmentAgent.generate_question: a question_asked record when the reply
\* parses as JSON, and the topic set to yellow either way
generate_question(student, concept, parsed, io) ==
    \E topic \in map_concept_to_topic(concept, io.kg) :
      LET topic_to_use == IF topic # None THEN topic ELSE concept
      IN /\ archival' = IF parsed
                        THEN write_archival_memory(archival, student,
                               [type |-> "question_asked", concept |-> concept,
                                topic |-> topic_to_use], io.append)
                        ELSE archival
         /\ SetGraph(StatusWrite(Graph, MatchNode(topic_to_use), "yellow", clock + 1, io.kgw))
         /\ clock' = clock + 1
         /\ UNCHANGED <<core, fb>>

\* ------------------------------------------------------------ solver agent

\* SolverAgent.explain.  The call self.neo4j.get_related_concepts names a
\* method the graph client of this tree does not define: it raises there
\* (resolved = FALSE); against a client that defines it, it is a read and
\* the call goes on (resolved = TRUE).  A raise of the generation also ends
\* the call before it writes.
explain(student, concept, resolved, io) ==
    IF ~resolved \/ ~io.llm
    THEN UNCHANGED <<kgvars, archival, core, fb>>
    ELSE /\ archival' = write_archival_memory(archival, student,
                           [type |-> "explanation_given", concept |-> concept,
                            focus |-> None], io.append)
         /\ SetGraph(StatusWrite(Graph, MatchNode(concept), "blue", clock + 1, io.kgw))
         /\ clock' = clock + 1
         /\ UNCHANGED <<core, fb>>

InitMemory ==
    /\ archival = [st \in Students |-> <<>>]
    /\ core = [st \in Students |-> [current_topic |-> <<>>]]
    /\ fb = [student |-> "None", concept |-> <<>>, topic |-> <<>>, passed |-> FALSE,
             score |-> 0, misconception |-> <<>>, attempt |-> 0, weak |-> <<>>,
             chain |-> <<>>, next_action |-> "", re_teach_focus |-> None,
             writes |-> <<>>, io |-> IoOk, raised |-> FALSE]

\* -------------------------------------------------------------- orchestrator

assessment_words == {
    <<"t", "e", "s", "t", " ", "m", "e">>,
    <<"q", "u", "i", "z", " ", "m", "e">>,
    <<"a", "s", "s", "e", "s", "s", " ", "m", "e">>,
    <<"g", "i", "v", "e", " ", "m", "e", " ", "a", " ", "q", "u", "e", "s", "t", "i", "o", "n">>,
    <<"p", "r", "a", "c", "t", "i", "c", "e", " ", "q", "u", "e", "s", "t", "i", "o", "n">>,
    <<"t", "e", "s", "t", " ", "m", "y">>,
    <<"t", "e", "s", "t", " ", "o", "n">>,
    <<"q", "u", "i", "z", " ", "o", "n">>,
    <<"w", "a", "n", "t", " ", "t", "o", " ", "t", "e", "s", "t">>,
    <<"w", "a", "n", "t", " ", "t", "o", " ", "b", "e", " ", "t", "e", "s", "t", "e", "d">>,
    <<"t", "e", "s", "t", " ", "m", "y", " ", "u", "n", "d", "e", "r", "s", "t", "a", "n", "d", "i", "n", "g">>,
    <<"t", "e", "s", "t", " ", "o", "n", " ", "m", "y">>,
    <<"i", " ", "w", "a", "n", "t", " ", "t", "o", " ", "t", "e", "s", "t">>,
    <<"a", "s", "s", "e", "s", "s", " ", "m", "y">>,
    <<"c", "h", "e", "c", "k", " ", "m", "y", " ", "u", "n", "d", "e", "r", "s", "t", "a", "n", "d", "i", "n", "g">>,
    <<"c", "h", "e", "c", "k", " ", "m", "y", " ", "k", "n", "o", "w", "l", "e", "d", "g", "e">>,
    <<"p", "r", "a", "c", "t", "i", "c", "e", " ", "o", "n">>,
    <<"w", "a", "n", "t", " ", "t", "o", " ", "p", "r", "a", "c", "t", "i", "c", "e">>}

casual_words == {
    <<"h", "i">>,
    <<"h", "e", "l", "l", "o">>,
    <<"h", "e", "y">>,
    <<"h", "o", "w", " ", "a", "r", "e", " ", "y", "o", "u">>,
    <<"w", "h", "a", "t", " ", "d", "o", " ", "y", "o", "u", " ", "d", "o">>,
    <<"w", "h", "o", " ", "a", "r", "e", " ", "y", "o", "u">>,
    <<"t", "h", "a", "n", "k", "s">>,
    <<"t", "h", "a", "n", "k", " ", "y", "o", "u">>,
    <<"g", "o", "o", "d", " ", "m", "o", "r", "n", "i", "n", "g">>,
    <<"g", "o", "o", "d", " ", "e", "v", "e", "n", "i", "n", "g">>,
    <<"b", "y", "e">>,
    <<"g", "o", "o", "d", "b", "y", "e">>,
    <<"w", "h", "a", "t", "'", "s", " ", "u", "p">>,
    <<"w", "h", "a", "t", "s", " ", "u", "p">>,
    <<"o", "k">>,
    <<"o", "k", "a", "y">>,
    <<"c", "o", "o", "l">>,
    <<"n", "i", "c", "e">>,
    <<"g", "r", "e", "a", "t">>,
    <<"a", "w", "e", "s", "o", "m", "e">>,
    <<"t", "h", "a", "t", " ", "m", "a", "k", "e", "s", " ", "s", "e", "n", "s", "e">>,
    <<"g", "o", "t", " ", "i", "t">>,
    <<"i", " ", "s", "e", "e">>,
    <<"w", "h", "a", "t", " ", "c", "a", "n", " ", "y", "o", "u", " ", "d", "o">>}

SolverSuffix ==
    <<" ", "-", " ", "i", "n", "c", "l", "u", "d", "e", " ", "d", "e", "t", "a", "i", "l", "e", "d", " ", "c", "o", "d", "e", " ", "e", "x", "a", "m", "p", "l", "e", "s", " ", "a", "n", "d", " ", "s", "t", "e", "p", " ", "b", "y", " ", "s", "t", "e", "p", " ", "e", "x", "p", "l", "a", "n", "a", "t", "i", "o", "n">>

RecommenderSuffix ==
    <<" ", "-", " ", "i", "n", "c", "l", "u", "d", "e", " ", "d", "e", "t", "a", "i", "l", "e", "d", " ", "c", "o", "d", "e", " ", "e", "x", "a", "m", "p", "l", "e", "s">>

ConceptFallbackLen == 60

\* student messages
m_yes == <<"y", "e", "s">>

m_test_me == <<"T", "e", "s", "t", " ", "m", "e", " ", "o", "n", " ", "P", "C", "A">>

m_latest == <<"l", "a", "t", "e", "s", "t", " ", "o", "n", " ", "p", "c", "a">>

m_hi == <<" ", "H", "i", " ">>

m_no_thanks == <<"n", "o", " ", "t", "h", "a", "n", "k", "s">>

m_what_is == <<"w", "h", "a", "t", " ", "i", "s", " ", "p", "c", "a">>

m_ok_quiz == <<"o", "k", " ", "q", "u", "i", "z", " ", "m", "e">>

m_empty == <<>>

Messages == {m_yes, m_test_me, m_latest, m_hi, m_no_thanks, m_what_is, m_ok_quiz,
             m_empty}

\* texts the generative model answers with
llm_YES == <<"Y", "E", "S">>

llm_yes == <<" ", "Y", "e", "s", ",", " ", "t", "h", "e", "y", " ", "d", "i", "d">>

llm_NO == <<"N", "O">>

llm_unsure == <<"M", "a", "y", "b", "e">>

llm_topic_pca == <<" ", "p", "c", "a">>

llm_blank == <<" ">>

\* LLMClient.generate: a text, or an exception
Said(t) == [ok |-> TRUE, text |-> t]

Raised == [ok |-> FALSE, text |-> <<>>]

NotCalled == [ok |-> FALSE, text |-> None]

\* the follow-up check
FollowupOutcomes == {Said(llm_yes), Said(llm_NO), Said(llm_unsure), Raised}

\* the technical and recommender checks
YesNoOutcomes == {Said(llm_YES), Said(llm_NO), Raised}

TopicOutcomes == {Said(llm_topic_pca), Said(llm_blank), Raised}

TextOutcomes == {Said(llm_blank), Raised}

LLMTexts == {llm_YES, llm_yes, llm_NO, llm_unsure, llm_topic_pca, llm_blank}

\* answer.strip().upper().startswith("YES")
AnswersYes(t) == StartsWith(Upper(Strip(t)), llm_YES)

\* AnswersYes, tabulated over the texts the model answers with
SaysYes == [t \in LLMTexts |-> AnswersYes(t)]

\* is_technical / is_recommender after the except clause: the answer starts
\* with YES, or the call raised and the default applies
CheckYesAnyAnswer(answer, default) == IF answer.ok THEN TRUE ELSE default

CheckYesOtherDefault(answer, default) ==
    IF answer.ok THEN SaysYes[answer.text] ELSE ~default

CheckYes(answer, default) == IF answer.ok THEN SaysYes[answer.text] ELSE default

\* any(w in message for w in assessment_words)
HasAssessmentWord(message) == \E w \in assessment_words : Contains(message, w)

\* any(message == w or message.startswith(w + " ") for w in casual_words)
IsCasual(message) ==
    \E w \in casual_words : message = w \/ StartsWith(message, w \o <<" ">>)

\* message = state["message"].strip().lower(), tabulated over the messages
Normalised == [m \in Messages |-> Lower(Strip(m))]

IsAssessmentRequest == [m \in Messages |-> HasAssessmentWord(Normalised[m])]

IsCasualMessage == [m \in Messages |-> IsCasual(Normalised[m])]

\* if self.pending_concept and self.pending_intent
PendingSet(pc, pi) == Truthy(pc) /\ pi # "None"

\* steps 3-6 of _classify: casual keywords, technical check, recommender check
NormalIntent(msg, tech, rec) ==
    IF IsCasualMessage[msg] THEN "chat"
    ELSE IF ~CheckYes(tech, TRUE) THEN "chat"
    ELSE IF CheckYes(rec, FALSE) THEN "brief_recommend"
    ELSE "brief"

\* the model calls _classify makes after the follow-up check
NormalCalls(msg, tech) ==
    IF IsCasualMessage[msg] THEN {}
    ELSE IF ~CheckYes(tech, TRUE) THEN {"technical"}
    ELSE {"technical", "recommender"}

\* _classify, step 1: an explicit assessment request clears the pending
\* follow-up and returns before any model call
ClassifyAssessmentKeepsPending(msg, pc, pm, pi) ==
    [intent |-> "assessment", concept |-> <<>>, message |-> msg,
     pc |-> pc, pm |-> pm, pi |-> pi, calls |-> {}]

ClassifyAssessment(msg, pc, pm, pi) ==
    [intent |-> "assessment", concept |-> <<>>, message |-> msg,
     pc |-> None, pm |-> None, pi |-> "None", calls |-> {}]

\* _classify, step 2, answer.startswith("YES"): the pending follow-up is
\* returned as intent, concept and message, and cleared
ClassifyFollowupYesKeepsMessage(msg, pc, pm, pi) ==
    [intent |-> pi, concept |-> pc, message |-> msg,
     pc |-> None, pm |-> None, pi |-> "None", calls |-> {"followup"}]

\* the YES branch without its three assignments of None
ClassifyFollowupYesKeepsPending(msg, pc, pm, pi) ==
    [intent |-> pi, concept |-> pc,
     message |-> IF Truthy(pm) THEN pm ELSE msg,
     pc |-> pc, pm |-> pm, pi |-> pi, calls |-> {"followup"}]

ClassifyFollowupYes(msg, pc, pm, pi) ==
    [intent |-> pi, concept |-> pc,
     message |-> IF Truthy(pm) THEN pm ELSE msg,
     pc |-> None, pm |-> None, pi |-> "None", calls |-> {"followup"}]

\* _classify, step 2 otherwise (any other answer, or the call raised): the
\* pending follow-up is cleared; then steps 3-6.  With no pending follow-up
\* step 2 is skipped.
ClassifyFallThroughKeepsPending(msg, pc, pm, pi, tech, rec) ==
    [intent |-> NormalIntent(msg, tech, rec), concept |-> <<>>, message |-> msg,
     pc |-> pc, pm |-> pm, pi |-> pi,
     calls |-> (IF PendingSet(pc, pi) THEN {"followup"} ELSE {})
               \cup NormalCalls(msg, tech)]

ClassifyFallThrough(msg, pc, pm, pi, tech, rec) ==
    [intent |-> NormalIntent(msg, tech, rec), concept |-> <<>>, message |-> msg,
     pc |-> IF PendingSet(pc, pi) THEN None ELSE pc,
     pm |-> IF PendingSet(pc, pi) THEN None ELSE pm,
     pi |-> IF PendingSet(pc, pi) THEN "None" ELSE pi,
     calls |-> (IF PendingSet(pc, pi) THEN {"followup"} ELSE {})
               \cup NormalCalls(msg, tech)]

\* Orchestrator._classify: the returned state (intent, concept, message), the
\* pending follow-up it leaves (pc, pm, pi) and the model calls it made
_classify(msg, pc, pm, pi, fu, tech, rec) ==
    IF IsAssessmentRequest[msg] THEN ClassifyAssessment(msg, pc, pm, pi)
    ELSE IF PendingSet(pc, pi) /\ CheckYes(fu, FALSE) THEN ClassifyFollowupYes(msg, pc, pm, pi)
    ELSE ClassifyFallThrough(msg, pc, pm, pi, tech, rec)

\* Orchestrator._extract_concept
_extract_concept(message, cx) ==
    IF cx.ok
    THEN (IF Strip(cx.text) # <<>> THEN Strip(cx.text) ELSE Take(message, ConceptFallbackLen))
    ELSE Take(message, ConceptFallbackLen)

\* how the follow-up check answered: "yes", "no", "other", "raised", or "none"
\* when it was not consulted
FollowupKind(consulted, fu) ==
    IF ~consulted THEN "none"
    ELSE IF ~fu.ok THEN "raised"
    ELSE IF SaysYes[fu.text] THEN "yes"
    ELSE IF fu.text = llm_NO THEN "no"
    ELSE "other"

\* how the technical or the recommender check answered: "yes", "other",
\* "raised", or "none" when it was not consulted
YesNoKind(consulted, answer) ==
    IF ~consulted THEN "none"
    ELSE IF ~answer.ok THEN "raised"
    ELSE IF SaysYes[answer.text] THEN "yes"
    ELSE "other"

\* a brief answer that stores the pending follow-up although its generation raised
StoresPendingOnFailure(intent, gen, concept) ==
    intent \in {"brief", "brief_recommend"} /\ Truthy(concept)

\* _run_brief_answer / _run_brief_recommend: the pending follow-up is stored
\* after the generation returned, `if concept:`
StoresPending(intent, gen, concept) ==
    intent \in {"brief", "brief_recommend"} /\ gen.ok /\ Truthy(concept)

Sessions == {"A", "B"}

\* Orchestrator.route: _classify, then the handler the intent selects.
\*   fu, tech, rec: the follow-up, technical and recommender checks
\*   gen: the handler's generation (chat, brief answer, or the full agent call)
\*   cx: the concept extraction of a brief answer
route(sess, msg, fu, tech, rec, gen, cx) ==
    \E c \in {_classify(msg, pending_concept, pending_message, pending_intent, fu, tech, rec)} :
    \E concept \in {_extract_concept(c.message, cx)} :
    \E writes \in {StoresPending(c.intent, gen, concept)} :
    LET brief == c.intent \in {"brief", "brief_recommend"}
        agent == IF c.intent \in {"brief_recommend", "recommender"}
                 THEN "Recommender" ELSE "Solver"
        \* solver.explain / recommender.recommend are not guarded: they raise to the caller
        raised == c.intent \in {"solver", "recommender"} /\ ~gen.ok
        response == IF c.intent = "assessment" THEN "assessment_tab"
                    ELSE IF gen.ok THEN "generated"
                    ELSE IF raised THEN "none"
                    ELSE "error_text"
    IN /\ pending_concept' = IF writes THEN concept ELSE c.pc
       /\ pending_message' =
            IF writes
            THEN c.message \o (IF c.intent = "brief" THEN SolverSuffix ELSE RecommenderSuffix)
            ELSE c.pm
       /\ pending_intent' =
            IF writes THEN (IF c.intent = "brief" THEN "solver" ELSE "recommender")
            ELSE c.pi
       /\ pending_owner' =
            IF writes THEN sess
            ELSE IF c.pc = None THEN "None" ELSE pending_owner
       /\ last_agent_used' = IF raised THEN last_agent_used ELSE agent
       /\ rt' = [session |-> sess, input |-> msg,
                 had_pending |-> PendingSet(pending_concept, pending_intent),
                 owner |-> pending_owner,
                 followup |-> FollowupKind("followup" \in c.calls, fu),
                 technical |-> YesNoKind("technical" \in c.calls, tech),
                 recommender |-> YesNoKind("recommender" \in c.calls, rec),
                 calls |-> c.calls,
                 intent |-> c.intent, concept |-> c.concept, message |-> c.message,
                 after |-> <<c.pc, c.pm, c.pi>>,
                 response |-> response, raised |-> raised]

InitRouter ==
    /\ pending_concept = None
    /\ pending_message = None
    /\ pending_intent = "None"
    /\ last_agent_used = "None"
    /\ pending_owner = "None"
    /\ rt = [session |-> "None", input |-> <<>>, had_pending |-> FALSE, owner |-> "None",
             followup |-> "none", technical |-> "none", recommender |-> "none",
             calls |-> {}, intent |-> "", concept |-> <<>>,
             message |-> <<>>, after |-> <<None, None, "None">>, response |-> "none", raised |-> FALSE]

\* ------------------------------------------------------------ specifications

\* workers serving requests; none is executing a call
Workers == {"w1", "w2"}

Idle == [pc |-> "idle"]

NoShadow == [on |-> FALSE]

InitRun ==
    /\ wk = [w \in Workers |-> Idle]
    /\ shadow = NoShadow

Init == InitKG /\ InitRouter /\ InitMemory /\ InitRun

UpdateTopicStatus ==
    /\ \E n \in KGNames, st \in Statuses, ok \in BOOLEAN : update_topic_status(n, st, ok)
    /\ UNCHANGED <<rtvars, memvars, runvars>>

UpdateTechniqueStatus ==
    /\ \E n \in KGNames, st \in Statuses, ok \in BOOLEAN : update_technique_status(n, st, ok)
    /\ UNCHANGED <<rtvars, memvars, runvars>>

UpdateNodeStatus ==
    /\ \E n \in KGNames, st \in Statuses, ok \in BOOLEAN : update_node_status(n, st, ok)
    /\ UNCHANGED <<rtvars, memvars, runvars>>

SyncMasteryFromLetta ==
    /\ \E names \in SeqsUpTo(KGNames, MaxSyncLen) :
         \E oks \in [1..Len(names) -> BOOLEAN] : sync_mastery_from_letta(names, oks)
    /\ UNCHANGED <<rtvars, memvars, runvars>>

\* the model calls a route() makes depend on the message and on the pending
\* follow-up; a call that is not made has no outcome
Route ==
    /\ \E sess \in Sessions, msg \in Messages :
         LET assess == IsAssessmentRequest[msg]
             pend == PendingSet(pending_concept, pending_intent)
         IN \E fu \in (IF ~assess /\ pend THEN FollowupOutcomes ELSE {NotCalled}) :
            LET yes == pend /\ CheckYes(fu, FALSE)
                normal == ~assess /\ ~yes /\ ~IsCasualMessage[msg]
            IN \E tech \in (IF normal THEN YesNoOutcomes ELSE {NotCalled}) :
               \E rec \in (IF normal /\ CheckYes(tech, TRUE)
                           THEN YesNoOutcomes ELSE {NotCalled}) :
               \E gen \in (IF assess THEN {NotCalled} ELSE TextOutcomes) :
               \E cx \in (IF normal /\ CheckYes(tech, TRUE) /\ gen.ok
                          THEN TopicOutcomes ELSE {NotCalled}) :
                 route(sess, msg, fu, tech, rec, gen, cx)
    /\ UNCHANGED <<kgvars, memvars, runvars>>

\* entries of the archive and clock readings are bounded
RECURSIVE ArchiveSize(_)
ArchiveSize(S) ==
    IF S = {} THEN 0
    ELSE LET st == CHOOSE x \in S : TRUE
         IN Len(archival[st]) + ArchiveSize(S \ {st})

Room(student) == ArchiveSize(Students) < MaxArchive /\ clock < MaxFeedbackClock

GiveFeedback ==
    /\ \E student \in Students, concept \in Concepts, result \in AssessmentResults,
          io \in FeedbackIO :
         Room(student) /\ give_feedback(student, concept, result, io)
    /\ UNCHANGED <<rtvars, runvars>>

EvaluateAnswer ==
    /\ \E student \in Students, concept \in Concepts, result \in AssessmentResults,
          appendOk \in BOOLEAN :
         Room(student) /\ evaluate_answer(student, concept, result, appendOk)
    /\ UNCHANGED <<rtvars, runvars>>

GenerateQuestion ==
    /\ \E student \in Students, concept \in Concepts, parsed \in BOOLEAN,
          io \in {IoOk} :
         Room(student) /\ generate_question(student, concept, parsed, io)
    /\ UNCHANGED <<rtvars, runvars>>

NextFeedback == GiveFeedback \/ EvaluateAnswer \/ GenerateQuestion

Explain ==
    /\ \E student \in Students, concept \in Concepts, resolved \in BOOLEAN, io \in FeedbackIO :
         Room(student) /\ explain(student, concept, resolved, io)
    /\ UNCHANGED <<rtvars, runvars>>

\* store outcomes of a call: all succeed; the graph status write fails; the
\* archive append fails; the graph reads fail; the archive search fails; the
\* graph is down for reads and writes
StoreIO == {IoOk,
            [IoOk EXCEPT !.kgw = FALSE],
            [IoOk EXCEPT !.append = FALSE],
            [IoOk EXCEPT !.kg = FALSE],
            [IoOk EXCEPT !.search = FALSE],
            [IoOk EXCEPT !.kg = FALSE, !.kgw = FALSE]}

\* the student whose calls meet store failures
FaultStudents == {"s1"}

GiveFeedbackStoreFault ==
    /\ \E student \in FaultStudents, concept \in Concepts, result \in AssessmentResults,
          io \in StoreIO :
         Room(student) /\ give_feedback(student, concept, result, io)
    /\ UNCHANGED <<rtvars, runvars>>

GenerateQuestionStoreFault ==
    /\ \E student \in FaultStudents, concept \in Concepts, parsed \in BOOLEAN,
          io \in StoreIO :
         Room(student) /\ generate_question(student, concept, parsed, io)
    /\ UNCHANGED <<rtvars, runvars>>

ExplainStoreFault ==
    /\ \E student \in FaultStudents, concept \in Concepts, resolved \in BOOLEAN,
          io \in StoreIO :
         Room(student) /\ explain(student, concept, resolved, io)
    /\ UNCHANGED <<rtvars, runvars>>

NextStoreFaults ==
    GiveFeedbackStoreFault \/ GenerateQuestionStoreFault \/ ExplainStoreFault

NextStatus == UpdateTopicStatus \/ UpdateTechniqueStatus \/ UpdateNodeStatus

NextKG == NextStatus \/ SyncMasteryFromLetta

NextRouter == Route

\* status writes only
SpecStatus == Init /\ [][NextStatus]_vars

\* status writes and bulk backfill
SpecKG == Init /\ [][NextKG]_vars

\* assessment and feedback for two students
SpecFeedback == Init /\ [][NextFeedback]_vars

\* the operations of the engine that write the graph, for one student, with
\* stores that may fail
NextEngine ==
    \/ ExplainStoreFault
    \/ GenerateQuestionStoreFault
    \/ GiveFeedbackStoreFault
    \/ SyncMasteryFromLetta

SpecEngine == Init /\ [][NextEngine]_vars

\* one student's feedback, questions and explanations with failing stores
SpecStoreFaults == Init /\ [][NextStoreFaults]_vars

\* _decide_next_action applied to every input of its table
WeakLists == {<<>>, <<[name |-> py, status |-> "red", depth |-> 1]>>}

DecideInputs ==
    {[student |-> "s1", concept |-> c_PCA, topic |-> pca, passed |-> p, score |-> sc,
      misconception |-> <<>>, attempt |-> a, weak |-> w, chain |-> w,
      next_action |-> "", re_teach_focus |-> None,
      writes |-> <<>>, io |-> IoOk, raised |-> FALSE] :
        p \in BOOLEAN, sc \in 0..MaxScore, a \in 1..MaxAttempt, w \in WeakLists}

InitDecide ==
    /\ InitKG
    /\ InitRouter
    /\ archival = [st \in Students |-> <<>>]
    /\ core = [st \in Students |-> [current_topic |-> <<>>]]
    /\ fb \in DecideInputs
    /\ InitRun

DecideNextAction ==
    /\ fb.next_action = ""
    /\ fb' = [fb EXCEPT !.next_action =
                 _decide_next_action(fb.score, fb.passed, fb.attempt, fb.weak)]
    /\ UNCHANGED <<kgvars, rtvars, archival, core, runvars>>

NextDecide == DecideNextAction

SpecDecide == InitDecide /\ [][NextDecide]_vars

\* get_next_recommended_topic applied to every curriculum of up to three
\* topics: which Topic nodes exist, which of them belong to the curriculum
\* graph, which PREREQUISITE edges join them and which status each has; fb holds
\* the call and the name it returned
StatusSample == {"null", "green", "red"}

EdgeSample == {<<pca, eda>>, <<eda, py>>, <<pca, py>>}

RecommendInputs ==
    {[topics |-> T, fods |-> F, prereq |-> E, ok |-> TRUE, called |-> FALSE,
      name |-> <<>>] :
        T \in SUBSET Topics, F \in SUBSET Topics, E \in SUBSET EdgeSample}

InitRecommend ==
    /\ status \in [Nodes -> StatusSample]
    /\ \A n \in Techniques : status[n] = "null"
    /\ mastered_at = [n \in Nodes |-> NoTime]
    /\ updated_at = [n \in Nodes |-> NoTime]
    /\ clock = 0
    /\ InitRouter
    /\ archival = [st \in Students |-> <<>>]
    /\ core = [st \in Students |-> [current_topic |-> <<>>]]
    /\ fb \in RecommendInputs
    /\ InitRun

GetNextRecommendedTopic ==
    /\ ~fb.called
    /\ \E ok \in BOOLEAN :
         fb' = [fb EXCEPT !.ok = ok, !.called = TRUE,
                          !.name = NextTopicQuery(fb.topics, fb.fods, fb.prereq, status, ok)]
    /\ UNCHANGED <<kgvars, rtvars, archival, core, runvars>>

NextRecommend == GetNextRecommendedTopic

SpecRecommend == InitRecommend /\ [][NextRecommend]_vars

\* give_feedback for one student on a curriculum part of which was backfilled
\* as mastered; among the results a failed one that carries no misconception
\* and one whose reply says passed with a score of 60 (evaluate_answer returns
\* the model's JSON as it is)
FocusResults ==
    AssessmentResults \cup {[score |-> 40, passed |-> FALSE, misconception |-> <<>>],
                            [score |-> 60, passed |-> TRUE, misconception |-> <<>>]}

FocusConcepts == Concepts \cup {c_svm}

InitFocus ==
    /\ \E names \in SeqsUpTo(Topics, Cardinality(Topics)) :
         /\ status = SyncFold([status |-> [n \in Nodes |-> "null"],
                               mastered_at |-> [n \in Nodes |-> NoTime],
                               updated_at |-> [n \in Nodes |-> NoTime]],
                              names, [i \in 1..Len(names) |-> TRUE]).status
         /\ mastered_at = [n \in Nodes |-> IF status[n] = "green" THEN Sentinel ELSE NoTime]
         /\ updated_at = mastered_at
    /\ clock = 0
    /\ InitRouter
    /\ InitMemory
    /\ InitRun

GiveFeedbackFocus ==
    /\ ArchiveSize(Students) < MaxArchive
    /\ clock < MaxFocusClock
    /\ \E student \in FaultStudents, concept \in FocusConcepts, result \in FocusResults :
         give_feedback(student, concept, result, IoOk)
    /\ UNCHANGED <<rtvars, runvars>>

NextFocus == GiveFeedbackFocus

SpecFocus == InitFocus /\ [][NextFocus]_vars

\* explain, generate_question and give_feedback for one student, every store
\* call and every generation succeeding
OneStudent == {"s1"}

ExplainOne ==
    /\ \E student \in OneStudent, concept \in Concepts, resolved \in BOOLEAN :
         Room(student) /\ explain(student, concept, resolved, IoOk)
    /\ UNCHANGED <<rtvars, runvars>>

GenerateQuestionOne ==
    /\ \E student \in OneStudent, concept \in Concepts, parsed \in BOOLEAN :
         Room(student) /\ generate_question(student, concept, parsed, IoOk)
    /\ UNCHANGED <<rtvars, runvars>>

GiveFeedbackOne ==
    /\ \E student \in OneStudent, concept \in Concepts, result \in AssessmentResults :
         Room(student) /\ give_feedback(student, concept, result, IoOk)
    /\ UNCHANGED <<rtvars, runvars>>

NextStudent == ExplainOne \/ GenerateQuestionOne \/ GiveFeedbackOne

SpecStudent == Init /\ [][NextStudent]_vars

\* two workers, each executing one give_feedback call with a passed result for
\* the same student; the calls of the memory client that read or write the
\* profile block are the steps.  Steps 1-9 of give_feedback (decision, archive
\* append, status write) are one step: they do not touch the profile.
ProfileStudent == "s1"

PassedResult == [score |-> 95, passed |-> TRUE, misconception |-> <<>>]

\* dict.update
DictUpdate(current, updates) ==
    [k \in DOMAIN current \cup DOMAIN updates |->
        IF k \in DOMAIN updates THEN updates[k] ELSE current[k]]

InList(q, x) == \E i \in 1..Len(q) : q[i] = x

\* give_feedback steps 1-9
FeedbackBegin(w) ==
    /\ wk[w].pc = "idle"
    /\ \E concept \in Concepts :
       \E d \in FeedbackDecisions(ProfileStudent, concept, PassedResult, IoOk) :
         /\ archival' = write_archival_memory(archival, ProfileStudent, d.record, TRUE)
         /\ SetGraph(ApplyWrites(Graph, clock, d.writes, TRUE))
         /\ clock' = clock + Len(d.writes)
         /\ fb' = FeedbackCall(ProfileStudent, concept, PassedResult, IoOk, d, TRUE)
         /\ wk' = [wk EXCEPT ![w] = [pc |-> "read_core", topic |-> d.topic]]
    /\ UNCHANGED <<core, shadow, rtvars>>

\* step 10: core = read_core_memory(student_id); mastered = core.get(kg_key, []);
\* if topic_to_use not in mastered: mastered.append(topic_to_use)
ReadCore(w) ==
    /\ wk[w].pc = "read_core"
    /\ \E mastered \in {Get(core[ProfileStudent], "mastered_concepts_fods", <<>>)} :
         wk' = [wk EXCEPT ![w] =
                  IF InList(mastered, wk[w].topic)
                  THEN [pc |-> "next_topic", topic |-> wk[w].topic]
                  ELSE [pc |-> "update_read", topic |-> wk[w].topic, then |-> "next_topic",
                        updates |-> [mastered_concepts_fods |-> Append(mastered, wk[w].topic),
                                     current_topic |-> wk[w].topic]]]
    /\ UNCHANGED <<kgvars, rtvars, memvars, shadow>>

\* update_core_memory: current = self.read_core_memory(student_id)
UpdateCoreRead(w) ==
    /\ wk[w].pc = "update_read"
    /\ wk' = [wk EXCEPT ![w] = [pc |-> "update_write", topic |-> wk[w].topic,
                                then |-> wk[w].then, updates |-> wk[w].updates,
                                current |-> core[ProfileStudent]]]
    /\ UNCHANGED <<kgvars, rtvars, memvars, shadow>>

\* update_core_memory: current.update(updates); core_memory.modify(value = current)
UpdateCoreWrite(w) ==
    /\ wk[w].pc = "update_write"
    /\ core' = [core EXCEPT ![ProfileStudent] = DictUpdate(wk[w].current, wk[w].updates)]
    /\ wk' = [wk EXCEPT ![w] = [pc |-> wk[w].then, topic |-> wk[w].topic]]
    /\ UNCHANGED <<kgvars, rtvars, archival, fb, shadow>>

\* next_topic = get_next_recommended_topic(); if next_topic: update_core_memory(...)
NextTopicRead(w) ==
    /\ wk[w].pc = "next_topic"
    /\ wk' = [wk EXCEPT ![w] = [pc |-> "update_read", topic |-> wk[w].topic, then |-> "returned",
                                updates |-> [current_topic |->
                                               get_next_recommended_topic(Graph, TRUE)]]]
    /\ UNCHANGED <<kgvars, rtvars, memvars, shadow>>

WorkerFeedbackBegin == \E w \in Workers : FeedbackBegin(w)

WorkerReadCore == \E w \in Workers : ReadCore(w)

WorkerUpdateCoreRead == \E w \in Workers : UpdateCoreRead(w)

WorkerUpdateCoreWrite == \E w \in Workers : UpdateCoreWrite(w)

WorkerNextTopicRead == \E w \in Workers : NextTopicRead(w)

NextProfile ==
    \/ WorkerFeedbackBegin
    \/ WorkerReadCore
    \/ WorkerUpdateCoreRead
    \/ WorkerUpdateCoreWrite
    \/ WorkerNextTopicRead

SpecProfile == Init /\ [][NextProfile]_vars

\* update_node_status called from several workers: a worker takes its
\* timestamp in Python, then sends the query; the store applies each query
\* atomically, in the order the queries arrive.
\* now = datetime.now(timezone.utc).isoformat()
TakeTimestamp(w) ==
    /\ wk[w].pc = "idle"
    /\ clock < MaxRaceClock
    /\ clock' = clock + 1
    /\ \E n \in KGNames, st \in Statuses :
         wk' = [wk EXCEPT ![w] = [pc |-> "query", name |-> n, status |-> st, now |-> clock']]
    /\ UNCHANGED <<status, mastered_at, updated_at, rtvars, memvars, shadow>>

\* self.query(cypher, {"name": name, "status": status, "now": now})
RunStatusQuery(w) ==
    /\ wk[w].pc = "query"
    /\ \E ok \in BOOLEAN :
         SetGraph(StatusWrite(Graph, MatchNode(wk[w].name), wk[w].status, wk[w].now, ok))
    /\ wk' = [wk EXCEPT ![w] = Idle]
    /\ UNCHANGED <<clock, rtvars, memvars, shadow>>

WorkerTakeTimestamp == \E w \in Workers : TakeTimestamp(w)

WorkerRunStatusQuery == \E w \in Workers : RunStatusQuery(w)

NextClock == WorkerTakeTimestamp \/ WorkerRunStatusQuery \/ SyncMasteryFromLetta

SpecClock == Init /\ [][NextClock]_vars

\* two runs of the engine side by side.  Both start from the same stores and
\* in both student B makes the same give_feedback calls with the same inputs;
\* student A's operations happen in the first run only.  The variables of the
\* module carry the first run, shadow carries the second: its graph, its
\* clock, B's archive and what B's last call decided.
StudentA == "s1"

StudentB == "s2"

\* steps 1-2 and 5-9 of give_feedback on a given graph and archive, every
\* store call succeeding
FeedbackDecisionsIn(g, records, concept, result) ==
    UNION {{FeedbackDecision(concept, result, topic, records, prereq_chain) :
              prereq_chain \in get_prerequisite_chain_for_feedback(
                  g, IF topic # None THEN topic ELSE concept, TRUE)} :
           topic \in map_concept_to_topic(concept, TRUE)}

NoCall == [attempt |-> 0, next_action |-> "", re_teach_focus |-> None, writes |-> <<>>]

InitTwin ==
    /\ InitKG
    /\ InitRouter
    /\ InitMemory
    /\ wk = [w \in Workers |-> Idle]
    /\ shadow = [on |-> TRUE, graph |-> Graph, clock |-> clock,
                 records |-> archival[StudentB], call |-> NoCall]

\* A's operations, made in the first run only
ExplainA ==
    /\ \E concept \in TwinConcepts, resolved \in BOOLEAN :
         Room(StudentA) /\ explain(StudentA, concept, resolved, IoOk)
    /\ UNCHANGED <<rtvars, runvars>>

GenerateQuestionA ==
    /\ \E concept \in TwinConcepts, parsed \in BOOLEAN :
         Room(StudentA) /\ generate_question(StudentA, concept, parsed, IoOk)
    /\ UNCHANGED <<rtvars, runvars>>

GiveFeedbackA ==
    /\ \E concept \in TwinConcepts, result \in AssessmentResults :
         Room(StudentA) /\ give_feedback(StudentA, concept, result, IoOk)
    /\ UNCHANGED <<rtvars, runvars>>

\* B's call, made in both runs
GiveFeedbackTwin ==
    /\ Room(StudentB)
    /\ \E concept \in TwinConcepts, result \in AssessmentResults :
         /\ give_feedback(StudentB, concept, result, IoOk)
         /\ \E d \in FeedbackDecisionsIn(shadow.graph, shadow.records, concept, result) :
              shadow' = [on |-> TRUE,
                         graph |-> ApplyWrites(shadow.graph, shadow.clock, d.writes, TRUE),
                         clock |-> shadow.clock + Len(d.writes),
                         records |-> Append(shadow.records, d.record),
                         call |-> [attempt |-> d.attempt, next_action |-> d.next_action,
                                   re_teach_focus |-> d.re_teach_focus, writes |-> d.writes]]
    /\ UNCHANGED <<rtvars, wk>>

NextTwin == ExplainA \/ GenerateQuestionA \/ GiveFeedbackA \/ GiveFeedbackTwin

SpecTwin == InitTwin /\ [][NextTwin]_vars

\* the orchestrator serving two sessions
SpecRouter == Init /\ [][NextRouter]_vars

\* ------------------------------------------------------------------ claims

\* a status write was applied to node n in this step: its updated_at is the
\* timestamp the step read from the clock
WrittenNow(n) == clock' # clock /\ updated_at'[n] = clock'

\* C1: under status writes alone (update_node_status, update_topic_status,
\* update_technique_status, any statuses in any order), the first applied
\* write of green to a node sets its mastered_at to that write's timestamp;
\* every other write leaves mastered_at as it was, and a write changes nothing
\* of a node but its status, updated_at and (on the first green) mastered_at.
C1_StatusWriteLatch ==
    [][\A n \in Nodes :
         /\ mastered_at[n] # NoTime => mastered_at'[n] = mastered_at[n]
         /\ (mastered_at[n] = NoTime /\ WrittenNow(n) /\ status'[n] = "green")
               => mastered_at'[n] = clock'
         /\ (mastered_at[n] = NoTime /\ ~(WrittenNow(n) /\ status'[n] = "green"))
               => mastered_at'[n] = NoTime
         /\ ~WrittenNow(n) => (status'[n] = status[n] /\ updated_at'[n] = updated_at[n])
      ]_vars

\* a node first mastered at time 1 is green again at time 3 with mastered_at still 1
C1_Witness ==
    \E n \in Nodes : status[n] = "green" /\ mastered_at[n] = 1 /\ updated_at[n] = 3

\* C2: across status writes and bulk backfill together, once a node's
\* mastered_at has a value, that value never changes.
C2_MasteredAtWriteOnce ==
    [][\A n \in Nodes : mastered_at[n] # NoTime => mastered_at'[n] = mastered_at[n]]_vars

\* C6: the pending follow-up belongs to one session: a request of another
\* session neither resolves it (an affirmative reply routed to the full
\* capability) nor clears or overwrites it.
C6_PendingPerSession ==
    [][(pending_owner # "None" /\ rt'.session # pending_owner)
         => /\ rt'.intent \notin {"solver", "recommender"}
            /\ pending_concept' = pending_concept
            /\ pending_message' = pending_message
            /\ pending_intent' = pending_intent
      ]_vars

\* C7: a message that contains an explicit-assessment phrase is classified as
\* assessment, with no model call, and the pending follow-up is empty
\* afterwards, whatever it was before and even when the message also starts
\* with a casual phrase.
C7_AssessmentFirst ==
    (rt.session # "None" /\ HasAssessmentWord(Lower(Strip(rt.input))))
      => /\ rt.intent = "assessment"
         /\ rt.calls = {}
         /\ rt.after = <<None, None, "None">>
         /\ pending_concept = None
         /\ pending_message = None
         /\ pending_intent = "None"

\* "ok quiz me" (a casual opening and an assessment phrase) arrived while a
\* follow-up was pending
C7_Witness ==
    /\ rt.input = m_ok_quiz
    /\ rt.had_pending
    /\ rt.intent = "assessment"
    /\ pending_concept = None

C9_AmbiguousKeepsPending ==
    [][(/\ PendingSet(pending_concept, pending_intent)
        /\ ~IsAssessmentRequest[rt'.input]
        /\ rt'.followup = "other")
         => /\ rt'.after = <<pending_concept, pending_message, pending_intent>>
            /\ rt'.intent \in {"chat", "brief", "brief_recommend"}
      ]_vars

\* C9 amended: such a reply clears the pending follow-up, and the message
\* falls through to normal classification.
C9_AmbiguousClearsPending ==
    [][(/\ PendingSet(pending_concept, pending_intent)
        /\ ~IsAssessmentRequest[rt'.input]
        /\ rt'.followup = "other")
         => /\ rt'.after = <<None, None, "None">>
            /\ rt'.intent \in {"chat", "brief", "brief_recommend"}
            /\ IsCasualMessage[rt'.input] => rt'.intent = "chat"
            /\ rt'.message = rt'.input
      ]_vars

\* the follow-up check answered neither YES nor NO while a follow-up was pending
C9_Witness ==
    /\ rt.had_pending
    /\ rt.followup = "other"
    /\ rt.intent = "brief"
    /\ rt.after = <<None, None, "None">>

IsMistakeFeedbackOnly(r, concept) ==
    /\ Get(r, "type", "") = "feedback_given"
    /\ Get(r, "concept", None) = concept
    /\ ~Get(r, "passed", TRUE)

\* the feedback_given records of a student's archive before position i that
\* are failed attempts at the concept
PriorFailedFeedback(student, i, concept) ==
    {j \in 1..(i - 1) : IsMistakeFeedbackOnly(archival[student][j], concept)}

\* C3: the attempt number give_feedback records is 1 + the number of failed
\* feedback_given records appended earlier for the same student and concept;
\* records of other types do not change it
C3_AttemptCountsFeedbackOnly ==
    \A student \in Students : \A i \in 1..Len(archival[student]) :
        LET r == archival[student][i]
        IN r.type = "feedback_given" =>
             r.attempt_number =
                 1 + Cardinality(PriorFailedFeedback(student, i, r.concept))

\* the colour the priority rule gives the assessed topic
VerdictColour(passed, attempt, weak) ==
    IF passed THEN "green"
    ELSE IF attempt >= 3 THEN "red"
    ELSE IF weak # <<>> THEN "orange"
    ELSE "yellow"

\* the statuses a give_feedback call wrote to the assessed topic
TopicWrites == SelectSeq(fb.writes, LAMBDA w : w[1] = fb.topic)

FeedbackReturned == fb.student # "None" /\ ~fb.raised /\ fb.next_action # ""

C5_DecisionTable ==
    fb.next_action # "" =>
        /\ fb.next_action = "advance" <=> (fb.passed /\ fb.score >= 90)
        /\ fb.next_action = "practice_more" <=>
               (fb.passed /\ fb.score >= 70 /\ fb.score < 90)
        /\ ~fb.passed => fb.next_action = "re_teach"
        /\ fb.next_action \in {"advance", "practice_more", "re_teach"}
        /\ \A a \in 1..MaxAttempt, w \in WeakLists :
               _decide_next_action(fb.score, fb.passed, a, w) = fb.next_action

\* a passed result with score exactly 90, on a third attempt with a weak
\* prerequisite, was decided as advance
C5_Witness ==
    /\ fb.next_action = "advance"
    /\ fb.score = 90
    /\ fb.passed
    /\ fb.attempt = 3
    /\ fb.weak # <<>>


\* a model call of the last classification raised
ClassifierCallFailed ==
    rt.followup = "raised" \/ rt.technical = "raised" \/ rt.recommender = "raised"

\* C11 as stated: when a model call of the classification fails, _classify
\* still returns an intent, never assessment, and when the technical or the
\* recommender classifier itself fails the intent is brief (teaching).
C11_ClassifierFailsToTeach ==
    (rt.session # "None" /\ ClassifierCallFailed)
      => /\ rt.intent \in {"chat", "brief", "brief_recommend", "solver", "recommender"}
         /\ (rt.technical = "raised" \/ rt.recommender = "raised") => rt.intent = "brief"

\* C11 amended: when a model call of the classification fails, _classify
\* still returns an intent, never assessment and never a full capability; a
\* failed technical check counts as technical, so the intent is then brief
\* unless the recommender check answers YES, which gives brief_recommend; a
\* failed recommender check gives brief.
C11_ClassifierFailsOpen ==
    (rt.session # "None" /\ ClassifierCallFailed)
      => /\ rt.intent \in {"chat", "brief", "brief_recommend"}
         /\ rt.technical = "raised" => rt.intent \in {"brief", "brief_recommend"}
         /\ rt.technical = "raised" =>
               (rt.intent = "brief_recommend" <=> rt.recommender = "yes")
         /\ rt.recommender = "raised" => rt.intent = "brief"
         /\ rt.followup = "raised" => rt.after = <<None, None, "None">>

\* every model call of a classification raised, and the intent was brief
C11_Witness ==
    /\ rt.had_pending
    /\ rt.followup = "raised"
    /\ rt.technical = "raised"
    /\ rt.recommender = "raised"
    /\ rt.intent = "brief"

\* a store write of the last give_feedback call failed
FeedbackWriteFailed == fb.student # "None" /\ (~fb.io.kgw \/ ~fb.io.append)

\* C12: a failed graph status write or archive append of give_feedback
\* reaches the caller as an error outcome.
C12_StoreWritesFailLoud ==
    FeedbackWriteFailed => fb.raised

\* the result the last give_feedback call was given
FeedbackResult(call) ==
    [score |-> call.score, passed |-> call.passed, misconception |-> call.misconception]

AllGreen == [Graph EXCEPT !.status = [n \in Nodes |-> "green"]]

\* C14: a failed read of the prerequisite resolver returns what the same
\* read returns when its query succeeds with no rows: the empty list for the
\* prerequisite reads, None for map_concept_to_topic, the default topic for
\* get_next_recommended_topic; a call whose graph reads failed went on with
\* those values.
C14_ReadsFailSoft ==
    /\ \A t \in Topics :
         /\ get_prerequisites(t, FALSE) = get_prerequisites(c_svm, TRUE)
         /\ get_prerequisites(t, FALSE) = <<>>
         /\ get_unmastered_prerequisites(Graph, t, FALSE)
              = get_unmastered_prerequisites(Graph, c_svm, TRUE)
         /\ get_unmastered_prerequisites(Graph, t, FALSE) = <<>>
         /\ get_prerequisite_chain_for_feedback(Graph, t, FALSE)
              = get_prerequisite_chain_for_feedback(Graph, c_svm, TRUE)
         /\ get_prerequisite_chain_for_feedback(Graph, t, FALSE) = {<<>>}
    /\ \A c \in Concepts :
         /\ map_concept_to_topic(c, FALSE) = map_concept_to_topic(c_svm, TRUE)
         /\ map_concept_to_topic(c, FALSE) = {None}
    /\ get_next_recommended_topic(Graph, FALSE) = get_next_recommended_topic(AllGreen, TRUE)
    /\ get_next_recommended_topic(Graph, FALSE) = DefaultTopic
    /\ (fb.student # "None" /\ ~fb.io.kg)
         => (~fb.raised /\ fb.topic = fb.concept /\ fb.chain = <<>> /\ fb.weak = <<>>)

\* a give_feedback call on "PCA" whose graph reads failed went on as if pca
\* were no topic and had no prerequisites, though eda is a weak prerequisite
C14_Witness ==
    /\ fb.student # "None"
    /\ ~fb.io.kg
    /\ ~fb.raised
    /\ fb.concept = c_PCA
    /\ fb.topic = c_PCA
    /\ fb.chain = <<>>
    /\ get_unmastered_prerequisites(Graph, pca, TRUE) # <<>>

\* C15: a give_feedback call that returns has appended exactly one
\* feedback_given record for the student and concept, carrying score, passed,
\* attempt number, re-teach focus and next action, so the next call sees it.
C15_ReturnedCallAppended ==
    [][(fb' # fb /\ ~fb'.raised)
         => /\ Len(archival'[fb'.student]) = Len(archival[fb'.student]) + 1
            /\ LET r == archival'[fb'.student][Len(archival'[fb'.student])]
               IN /\ r.type = "feedback_given"
                  /\ r.concept = fb'.concept
                  /\ r.score = fb'.score
                  /\ r.passed = fb'.passed
                  /\ r.attempt_number = fb'.attempt
                  /\ r.root_cause = fb'.re_teach_focus
                  /\ r.next_action = fb'.next_action
            /\ \A st \in Students \ {fb'.student} : archival'[st] = archival[st]
      ]_vars

\* C16: once a topic's status is green, no operation of the engine (explain,
\* generate_question, give_feedback, sync_mastery_from_letta) changes it to
\* another status.
C16_MasteredNeverRegresses ==
    [][\A n \in Nodes : status[n] = "green" => status'[n] = "green"]_vars

\* C17: applied to any reachable graph, sync_mastery_from_letta(names) changes
\* only nodes named in names whose status was not green, and sets their status
\* to green and both timestamps to the sentinel; a green node and a node not
\* named keep status, mastered_at and updated_at; and the same call applied to
\* the resulting graph changes nothing.
C17_SyncIdempotentMonotonic ==
    \A names \in SeqsUpTo(KGNames, MaxSyncLen) :
      \A oks \in [1..Len(names) -> BOOLEAN] :
        \A g2 \in {SyncFold(Graph, names, oks)} :
          /\ \A n \in Nodes :
               (\/ g2.status[n] # status[n]
                \/ g2.mastered_at[n] # mastered_at[n]
                \/ g2.updated_at[n] # updated_at[n])
                 => /\ n \in Range(names)
                    /\ status[n] # "green"
                    /\ g2.status[n] = "green"
                    /\ g2.mastered_at[n] = Sentinel
                    /\ g2.updated_at[n] = Sentinel
          /\ SyncFold(g2, names, oks) = g2
          /\ (\A i \in 1..Len(names) : oks[i])
                => \A oks2 \in [1..Len(names) -> BOOLEAN] :
                     SyncFold(g2, names, oks2) = g2

\* one node was backfilled (green at the sentinel) while another, mastered by a
\* status write at time 1, is green with its own timestamps
C17_Witness ==
    \E n, k \in Nodes :
        /\ status[n] = "green" /\ mastered_at[n] = Sentinel /\ updated_at[n] = Sentinel
        /\ status[k] = "green" /\ mastered_at[k] = 1 /\ updated_at[k] = 1

\* the topics of the called graph that qualify: in the curriculum, not green,
\* every direct prerequisite green
Qualifying ==
    {t \in fb.topics \cap fb.fods :
        /\ status[t] # "green"
        /\ \A pre \in fb.topics : <<t, pre>> \in fb.prereq => status[pre] = "green"}

\* C18: get_next_recommended_topic returns the smallest name, in string
\* order, among the curriculum's topics that are not green and whose direct
\* prerequisites are all green; when none qualifies or the read failed it
\* returns 'Python for Data Science'.
C18_NextRecommendedTopic ==
    fb.called =>
        IF fb.ok /\ Qualifying # {}
        THEN /\ fb.name \in Qualifying
             /\ \A u \in Qualifying : u = fb.name \/ LexLess(fb.name, u)
        ELSE fb.name = DefaultTopic

\* two topics qualify and the one earlier in string order was returned, not
\* the other
C18_Witness ==
    /\ fb.called /\ fb.ok
    /\ Qualifying = {pca, py}
    /\ fb.name = pca
    /\ status[eda] = "green"

\* the weak prerequisites of the assessed topic at hop distance d, by the
\* statuses the call read
WeakAtDepth(d) ==
    {m \in PathEnds(fb'.topic, d) : IsWeakStatus(CoalesceStatus(status[m]))}

C21_RouteAlwaysResponds ==
    rt.session # "None" => (~rt.raised /\ rt.response # "error_text")

\* C22: the weak prerequisites a give_feedback call uses are exactly the rows
\* of the prerequisite chain it read whose status is not green, which are the
\* prerequisites get_unmastered_prerequisites returns for the topic.
C22_WeakIsNotMastered ==
    (fb.student # "None" /\ ~fb.raised /\ fb.io.kg)
        => fb.weak = SelectSeq(fb.chain, LAMBDA p : p.status # "green")

\* C23: the attempt number of a give_feedback call that returns is not below
\* the attempt number any earlier call recorded for the same student and
\* concept.
C23_AttemptNeverDecreases ==
    [][(fb' # fb /\ ~fb'.raised)
         => \A i \in 1..Len(archival[fb'.student]) :
              (/\ Get(archival[fb'.student][i], "type", "") = "feedback_given"
               /\ Get(archival[fb'.student][i], "concept", None) = fb'.concept)
                => archival[fb'.student][i].attempt_number <= fb'.attempt
      ]_vars

\* the pending follow-up a brief answer of the given intent stores for a message
BriefTarget(intent) == IF intent = "brief" THEN "solver" ELSE "recommender"

BriefSuffix(intent) == IF intent = "brief" THEN SolverSuffix ELSE RecommenderSuffix

\* the route call of this step gave a brief answer whose generation returned
BriefAnswered == rt'.intent \in {"brief", "brief_recommend"} /\ rt'.response = "generated"

C25_GreenOnlyFromSeventy ==
    (fb.student # "None" /\ ~fb.raised)
        => ((\/ \E i \in 1..Len(fb.writes) : fb.writes[i] = <<fb.topic, "green">>
             \/ (fb.passed /\ \E i \in 1..Len(Get(core[fb.student], "mastered_concepts_fods", <<>>)) :
                   core[fb.student].mastered_concepts_fods[i] = fb.topic))
            => (fb.score >= 70 /\ fb.next_action # "re_teach"))

\* C26: whenever _classify returns inside a route call, the pending concept,
\* message and intent are all empty, whatever the message and whatever the
\* follow-up check answered or failed with; what is pending after the call was
\* stored by the brief answer of that same call.
C26_PendingNeverSurvivesClassify ==
    [][/\ rt'.after = <<None, None, "None">>
       /\ PendingSet(pending_concept', pending_intent')
            => StoresPending(rt'.intent, [ok |-> rt'.response = "generated"], pending_concept')
       /\ ~PendingSet(pending_concept', pending_intent')
            => (pending_concept' = None /\ pending_message' = None /\ pending_intent' = "None")
      ]_vars

\* a follow-up was pending, the follow-up check raised, and the message was
\* then answered by casual chat: nothing is pending
C26_Witness ==
    /\ rt.had_pending
    /\ rt.followup = "raised"
    /\ rt.intent = "chat"
    /\ pending_concept = None /\ pending_message = None /\ pending_intent = "None"

\* C27: every topic in a student's mastered list in the memory store has
\* status green in the graph.
C27_MasteredListIsGreen ==
    \A st \in Students :
      \A i \in 1..Len(Get(core[st], "mastered_concepts_fods", <<>>)) :
        /\ core[st].mastered_concepts_fods[i] \in Nodes
        /\ status[core[st].mastered_concepts_fods[i]] = "green"

\* C28: once two concurrent give_feedback calls with passed results for one
\* student and two different topics have both returned, both topics are in the
\* student's mastered list.
C28_NoLostProfileUpdate ==
    (/\ \A w \in Workers : wk[w].pc = "returned"
     /\ wk["w1"].topic # wk["w2"].topic)
        => \A w \in Workers :
             InList(Get(core[ProfileStudent], "mastered_concepts_fods", <<>>), wk[w].topic)


\* C29: in every reachable state, a node whose mastered_at is set has
\* mastered_at <= updated_at.
C29_MasteredAtNotAfterUpdatedAt ==
    \A n \in Nodes : mastered_at[n] # NoTime => mastered_at[n] <= updated_at[n]


\* C30: a give_feedback call of student B yields the same attempt number,
\* next_action, re_teach_focus and written status in two runs that differ
\* only in student A's operations.
C30_StudentsDoNotInterfere ==
    (fb.student = StudentB /\ ~fb.raised) =>
        /\ fb.attempt = shadow.call.attempt
        /\ fb.next_action = shadow.call.next_action
        /\ fb.re_teach_focus = shadow.call.re_teach_focus
        /\ fb.writes = shadow.call.writes

====
